---- MODULE Spec2Model ----
(***************************************************************************)
(* Model of the feedback-management dashboard (echo-insight-system).       *)
(*                                                                         *)
(* Ratings are carried in tenths (a rating of 2.5 is 25), so that the      *)
(* thresholds of the source (2.5, 3, 3.5, 4, 4.5 ...) are integers.        *)
(* A rating cell of a row is a record [kind, tenths]: kind "num" for a     *)
(* stored number, "null" for SQL NULL, "undefined" for a missing field.    *)
(*                                                                         *)
(* Each component has its own variables, actions and specification; the    *)
(* variables of the other components stay at their initial value.          *)
(***************************************************************************)
EXTENDS Integers, Sequences, FiniteSets, TLC

VARIABLES
  \* RealTimeNotifications.tsx
  notifications,   \* useState<Notification[]>: newest first
  delivered,       \* number of insert events handled so far (ids are arrival numbers)
  lastPayload,     \* payload.new of the event handled last
  lastOp,          \* the handler that ran last
  \* FeedbackManagement.tsx
  searchTerm, ratingFilter, dateFilter, currentPage,
  feedbackData,    \* useQuery data of the current query key
  lastCount,       \* count of the response received last
  \* AdvancedSearch.tsx
  filters,         \* useState<SearchFilters>
  timerPending,    \* lodash debounce: a trailing call is scheduled
  elapsed,         \* ticks since the last debounced call
  debouncedArgs,   \* lastArgs of the debounced function
  searchInflight,  \* query keys with a fetch in flight
  searchResults,   \* useQuery data of the current query key
  updateCalls,     \* number of updateFilter calls so far
  burstCalls,      \* updateFilter calls of the current burst
  burstIssued,     \* fetches issued by the calls of the current burst
  lastIssued,      \* filters of the fetch issued last
  \* DashboardOverview.tsx (react-query version)
  dashFeedbacks, dashIssues,
  \* part_002 (DashboardOverview with loadDashboardData)
  pc,              \* position of loadDashboardData
  loading, stats,  \* useState(true), useState<DashboardStats | null>(null)
  user,            \* useAuth().user is set
  totalFeedback, feedbackRows, issueRows,   \* locals of loadDashboardData
  loadToast,       \* the destructive toast of the catch block was shown
  \* writes to the backend (FeedbackManagement.markAsRead, part_003 mutations)
  writes,          \* number of write requests started so far
  processedAt,     \* feedbacks.processed_at of the tracked rows (0 is null)
  markCalls,       \* markAsRead invocations in flight
  markToast,       \* toast shown last by markAsRead
  marked,          \* ids the user clicked Mark Read on
  \* part_003 (IssuesTracking)
  issueTable,      \* rows of current_issues, newest first
  issuesQuery,     \* useQuery data of ['current_issues']
  issuesFetching,  \* a fetch of ['current_issues'] is in flight
  newIssueTitle, isCreateDialogOpen,
  createCalls, deleteCalls,   \* mutations in flight
  issueToast,      \* toast shown last by a mutation
  \* Analytics.tsx
  analyticsFeedbacks, analyticsIssues,   \* the two queries
  analyticsStats,  \* value of the stats memo
  \* EnhancedDashboardOverview.tsx
  dashboardData,   \* useQuery data of ['enhanced-dashboard']
  enhancedReads,   \* the three reads of the queryFn: idle, pending or settled
  enhancedFailed,  \* a read of the queryFn run that completed last had failed
  enhancedErrorShown,  \* an error notification of the view is on screen
  \* AuthModal (EnhancedDashboardOverview.tsx:484-902)
  isOpen, mode,    \* props held by the parent: showAuthModal, authMode
  currentView, authLoading, usernameStatus,   \* useState of the modal
  username,        \* registerForm.watch('username'); "" when the field is empty
  checkTimeout,    \* useState<Timeout | null>: handle of the timer set last (0 is null)
  effectTimeout,   \* checkTimeout as captured by the effect run last (read by its cleanup)
  timers,          \* setTimeout timers not fired and not cleared
  availabilityCalls,   \* checkUsernameAvailability calls in flight
  authCall,        \* the signIn, signUp or resetPassword call started last, and its state
  checks,          \* number of timers set so far (a handle is the number of its timer)
  statusFor,       \* the username of the check whose answer set usernameStatus last
  formErrors,      \* handleSubmit found the form invalid and displayed the errors
  \* the channel of RealTimeNotifications.tsx
  notifUser,       \* useAuth().user of the notification bell (0 is null)
  notifMounted,    \* the component is mounted
  channels,        \* channels subscribed and not removed
  channelsMade,    \* number of channels created so far (a channel is its number)
  effectChannel,   \* the channel held by the cleanup of the effect run last (0 is none)
  handlerChannel   \* the channel whose handler ran last (0 is none)

notifVars == <<notifications, delivered, lastPayload, lastOp>>
fmVars == <<searchTerm, ratingFilter, dateFilter, currentPage, feedbackData, lastCount>>
searchVars == <<filters, timerPending, elapsed, debouncedArgs, searchInflight,
                searchResults, updateCalls, burstCalls, burstIssued, lastIssued>>
dashVars == <<dashFeedbacks, dashIssues>>
loadVars == <<pc, loading, stats, user, totalFeedback, feedbackRows, issueRows, loadToast>>
markVars == <<writes, processedAt, markCalls, markToast, marked>>
issueVars == <<issueTable, issuesQuery, issuesFetching, newIssueTitle, isCreateDialogOpen,
               createCalls, deleteCalls, issueToast>>
analyticsVars == <<analyticsFeedbacks, analyticsIssues, analyticsStats>>
enhancedVars == <<dashboardData, enhancedReads, enhancedFailed, enhancedErrorShown>>
authVars == <<isOpen, mode, currentView, authLoading, usernameStatus, username, checkTimeout,
              effectTimeout, timers, availabilityCalls, authCall, checks, statusFor,
              formErrors>>
channelVars == <<notifUser, notifMounted, channels, channelsMade, effectChannel,
                 handlerChannel>>
vars == <<notifVars, fmVars, searchVars, dashVars, loadVars, markVars, issueVars,
          analyticsVars, enhancedVars, authVars, channelVars>>

----------------------------------------------------------------------------
(* Shared helpers: JavaScript value conversions and sequence utilities.    *)

Min(a, b) == IF a < b THEN a ELSE b
Max(a, b) == IF a > b THEN a ELSE b

NullRating == [kind |-> "null", tenths |-> 0]
UndefinedRating == [kind |-> "undefined", tenths |-> 0]
Num(t) == [kind |-> "num", tenths |-> t]

\* Number(x): null -> 0, undefined -> NaN, a number -> itself.
ToNumber(r) ==
  IF r.kind = "null" THEN [nan |-> FALSE, tenths |-> 0]
  ELSE IF r.kind = "undefined" THEN [nan |-> TRUE, tenths |-> 0]
  ELSE [nan |-> FALSE, tenths |-> r.tenths]

\* n < t in JavaScript: every comparison with NaN is false.
JsLess(n, t) == ~n.nan /\ n.tenths < t

\* Number(x) || 0: NaN and 0 are falsy.
NumberOrZero(r) == IF ToNumber(r).nan THEN 0 ELSE ToNumber(r).tenths

\* Array.prototype.slice(0, n)
Slice0(s, n) == SubSeq(s, 1, Min(n, Len(s)))

\* all sequences over S of length at most n
SeqUpTo(S, n) == UNION {[1..k -> S] : k \in 0..n}

RECURSIVE SumSeq(_)
SumSeq(s) == IF s = <<>> THEN 0 ELSE Head(s) + SumSeq(Tail(s))

----------------------------------------------------------------------------
(* RealTimeNotifications.tsx                                               *)
(* payload.new.id is the row's primary key: every event carries a fresh    *)
(* id, modelled as the arrival number of the event.  title, message and    *)
(* timestamp of a notification are never read back and are left out.       *)

MaxEvents == 12
NotifKeep == 9
HighBelow == 30
NotifRatings == {NullRating, UndefinedRating, Num(29), Num(30)}

InitNotif ==
  /\ notifications = <<>>
  /\ delivered = 0
  /\ lastPayload = [table |-> "none", average_rating |-> NullRating]
  /\ lastOp = "none"

\* priority: Number(payload.new.average_rating) < 3 ? 'high' : 'medium'
FeedbackPriority(rating) ==
  IF JsLess(ToNumber(rating), HighBelow) THEN "high" ELSE "medium"

\* the list without its cap
PrependKeepAll(n, prev) == <<n>> \o prev

\* an insert that rebuilds the kept entries as unread
PrependUnread(n, prev) ==
  <<n>> \o [i \in DOMAIN Slice0(prev, NotifKeep) |-> [prev[i] EXCEPT !.read = FALSE]]

\* setNotifications(prev => [newNotification, ...prev.slice(0, 9)])
Prepend(n, prev) == <<n>> \o Slice0(prev, NotifKeep)

\* feedbacks INSERT handler
FeedbackInsert(rating) ==
  /\ delivered < MaxEvents
  /\ delivered' = delivered + 1
  /\ lastPayload' = [table |-> "feedbacks", average_rating |-> rating]
  /\ lastOp' = "insert"
  /\ notifications' = Prepend([id |-> delivered + 1, type |-> "feedback",
                               read |-> FALSE,
                               priority |-> FeedbackPriority(rating)],
                              notifications)
  /\ UNCHANGED <<fmVars, searchVars, dashVars, loadVars, markVars, issueVars, analyticsVars,
                 enhancedVars, authVars, channelVars>>

\* current_issues INSERT handler
IssueInsert ==
  /\ delivered < MaxEvents
  /\ delivered' = delivered + 1
  /\ lastPayload' = [table |-> "current_issues", average_rating |-> UndefinedRating]
  /\ lastOp' = "insert"
  /\ notifications' = Prepend([id |-> delivered + 1, type |-> "issue",
                               read |-> FALSE, priority |-> "high"],
                              notifications)
  /\ UNCHANGED <<fmVars, searchVars, dashVars, loadVars, markVars, issueVars, analyticsVars,
                 enhancedVars, authVars, channelVars>>

NextNotif ==
  \/ \E rating \in NotifRatings : FeedbackInsert(rating)
  \/ IssueInsert

\* the read flag flipped instead of set
MarkReadToggle(id, prev) ==
  [i \in DOMAIN prev |->
     IF prev[i].id = id THEN [prev[i] EXCEPT !.read = ~prev[i].read] ELSE prev[i]]

\* prev.map(n => n.id === id ? { ...n, read: true } : n)
MarkRead(id, prev) ==
  [i \in DOMAIN prev |->
     IF prev[i].id = id THEN [prev[i] EXCEPT !.read = TRUE] ELSE prev[i]]

\* every read flag flipped instead of set
MarkAllReadToggle(prev) ==
  [i \in DOMAIN prev |-> [prev[i] EXCEPT !.read = ~prev[i].read]]

\* prev.map(n => ({ ...n, read: true }))
MarkAllRead(prev) ==
  [i \in DOMAIN prev |-> [prev[i] EXCEPT !.read = TRUE]]

\* notifications.filter(n => !n.read).length
UnreadCount(list) == Cardinality({i \in DOMAIN list : ~list[i].read})

unreadCount == UnreadCount(notifications)

\* a click on the row of notification id
markAsRead(id) ==
  /\ \E i \in DOMAIN notifications : notifications[i].id = id
  /\ notifications' = MarkRead(id, notifications)
  /\ lastOp' = "markAsRead"
  /\ UNCHANGED <<delivered, lastPayload>>
  /\ UNCHANGED <<fmVars, searchVars, dashVars, loadVars, markVars, issueVars, analyticsVars,
                 enhancedVars, authVars, channelVars>>

\* the "Mark all as read" button, rendered when notifications.length > 0
MarkAllAsRead ==
  /\ Len(notifications) > 0
  /\ notifications' = MarkAllRead(notifications)
  /\ lastOp' = "markAll"
  /\ UNCHANGED <<delivered, lastPayload>>
  /\ UNCHANGED <<fmVars, searchVars, dashVars, loadVars, markVars, issueVars, analyticsVars,
                 enhancedVars, authVars, channelVars>>

\* The read flags multiply the lists: the specification with the two mark
\* handlers takes fewer events, and a feedback event arrives only while no
\* feedback notification is in the list.
MaxReadEvents == 11

FeedbackShown == \E i \in DOMAIN notifications : notifications[i].type = "feedback"

ReadFeedbackInsert(rating) ==
  /\ delivered < MaxReadEvents
  /\ ~FeedbackShown
  /\ FeedbackInsert(rating)

ReadIssueInsert ==
  /\ delivered < MaxReadEvents
  /\ IssueInsert

NextNotifRead ==
  \/ \E rating \in NotifRatings : ReadFeedbackInsert(rating)
  \/ ReadIssueInsert
  \/ \E id \in 1..MaxReadEvents : markAsRead(id)
  \/ MarkAllAsRead

----------------------------------------------------------------------------
(* FeedbackManagement.tsx                                                  *)
(* useQuery is keyed by <<currentPage, searchTerm, ratingFilter,           *)
(* dateFilter>>: a changed key has no data until its fetch completes, and  *)
(* the component renders only the loading skeleton (no controls) while     *)
(* isLoading.  The row store may report any exact count for a fetch.       *)

ITEMS_PER_PAGE == 10
MaxRows == 31
SearchTerms == {"", "a"}
RatingFilters == {"all", "4+", "3+", "2+", "1+"}
DateFilters == {"all", "today", "week", "month"}

MaxPageRows == 2
FeedbackIds == 1..MaxPageRows

LoadingData == [status |-> "loading", feedbacks |-> <<>>, totalCount |-> 0, totalPages |-> 0]

\* the count of a response: a number, or null when the count is missing
NullCount == [null |-> TRUE, n |-> 0]
Count(n) == [null |-> FALSE, n |-> n]
CountValues == {NullCount} \cup {Count(n) : n \in 0..MaxRows}

\* count || 0
CountOrZero(count) == IF count.null THEN 0 ELSE count.n

\* the quotient rounded down
FloorDiv(a, b) == a \div b

\* Math.ceil(a / b) for a >= 0, b > 0
CeilDiv(a, b) == (a + b - 1) \div b

queryKey == <<currentPage, searchTerm, ratingFilter, dateFilter>>

isLoading == feedbackData.status = "loading"

\* const { feedbacks = [], totalCount = 0, totalPages = 0 } = feedbackData || {}
totalPages == feedbackData.totalPages

\* data shown after the state change of a handler: kept if the key is the same
DataAfter(newKey) == IF newKey = queryKey THEN feedbackData ELSE LoadingData

InitFM ==
  /\ searchTerm = ""
  /\ ratingFilter = "all"
  /\ dateFilter = "all"
  /\ currentPage = 1
  /\ feedbackData = LoadingData
  /\ lastCount = NullCount

\* onChange={(e) => setSearchTerm(e.target.value)}
SetSearchTerm(v) ==
  /\ ~isLoading
  /\ v # searchTerm
  /\ searchTerm' = v
  /\ feedbackData' = DataAfter(<<currentPage, v, ratingFilter, dateFilter>>)
  /\ UNCHANGED <<ratingFilter, dateFilter, currentPage>>
  /\ UNCHANGED lastCount
  /\ UNCHANGED <<notifVars, searchVars, dashVars, loadVars, markVars, issueVars, analyticsVars,
                 enhancedVars, authVars, channelVars>>

\* onValueChange={setRatingFilter}
SetRatingFilter(v) ==
  /\ ~isLoading
  /\ v # ratingFilter
  /\ ratingFilter' = v
  /\ feedbackData' = DataAfter(<<currentPage, searchTerm, v, dateFilter>>)
  /\ UNCHANGED <<searchTerm, dateFilter, currentPage>>
  /\ UNCHANGED lastCount
  /\ UNCHANGED <<notifVars, searchVars, dashVars, loadVars, markVars, issueVars, analyticsVars,
                 enhancedVars, authVars, channelVars>>

\* onValueChange={setDateFilter}
SetDateFilter(v) ==
  /\ ~isLoading
  /\ v # dateFilter
  /\ dateFilter' = v
  /\ feedbackData' = DataAfter(<<currentPage, searchTerm, ratingFilter, v>>)
  /\ UNCHANGED <<searchTerm, ratingFilter, currentPage>>
  /\ UNCHANGED lastCount
  /\ UNCHANGED <<notifVars, searchVars, dashVars, loadVars, markVars, issueVars, analyticsVars,
                 enhancedVars, authVars, channelVars>>

\* Clear Filters onClick
ClearFilters ==
  /\ ~isLoading
  /\ searchTerm' = ""
  /\ ratingFilter' = "all"
  /\ dateFilter' = "all"
  /\ currentPage' = 1
  /\ feedbackData' = DataAfter(<<1, "", "all", "all">>)
  /\ UNCHANGED lastCount
  /\ UNCHANGED <<notifVars, searchVars, dashVars, loadVars, markVars, issueVars, analyticsVars,
                 enhancedVars, authVars, channelVars>>

\* the pager is rendered only when totalPages > 1
PagerShown == ~isLoading /\ totalPages > 1

prevDisabled == currentPage = 1

\* Next disabled on every page from the last one on
NextDisabledFromLast == currentPage >= totalPages

nextDisabled == currentPage = totalPages

\* Previous onClick: setCurrentPage(prev => Math.max(1, prev - 1))
PreviousPage ==
  /\ PagerShown
  /\ ~prevDisabled
  /\ currentPage' = Max(1, currentPage - 1)
  /\ feedbackData' = DataAfter(<<currentPage', searchTerm, ratingFilter, dateFilter>>)
  /\ UNCHANGED <<searchTerm, ratingFilter, dateFilter>>
  /\ UNCHANGED lastCount
  /\ UNCHANGED <<notifVars, searchVars, dashVars, loadVars, markVars, issueVars, analyticsVars,
                 enhancedVars, authVars, channelVars>>

\* Next onClick: setCurrentPage(prev => Math.min(totalPages, prev + 1))
NextPage ==
  /\ PagerShown
  /\ ~nextDisabled
  /\ currentPage' = Min(totalPages, currentPage + 1)
  /\ feedbackData' = DataAfter(<<currentPage', searchTerm, ratingFilter, dateFilter>>)
  /\ UNCHANGED <<searchTerm, ratingFilter, dateFilter>>
  /\ UNCHANGED lastCount
  /\ UNCHANGED <<notifVars, searchVars, dashVars, loadVars, markVars, issueVars, analyticsVars,
                 enhancedVars, authVars, channelVars>>

\* .range(from, to): the tracked rows are the first rows of the table, so
\* they are rows of page 1; each row is read as the table holds it
RowsOfPage(count) ==
  IF currentPage = 1
  THEN [i \in 1..Min(CountOrZero(count), MaxPageRows) |->
          [id |-> i, processed_at |-> processedAt[i]]]
  ELSE <<>>

\* { feedbacks: data || [], totalCount: count || 0,
\*   totalPages: Math.ceil((count || 0) / ITEMS_PER_PAGE) }
QueryResult(count) ==
  [status |-> "success", feedbacks |-> RowsOfPage(count),
   totalCount |-> CountOrZero(count),
   totalPages |-> CeilDiv(CountOrZero(count), ITEMS_PER_PAGE)]

\* queryFn resolves
FetchComplete(count) ==
  /\ isLoading
  /\ feedbackData' = QueryResult(count)
  /\ lastCount' = count
  /\ UNCHANGED <<searchTerm, ratingFilter, dateFilter, currentPage>>
  /\ UNCHANGED <<notifVars, searchVars, dashVars, loadVars, markVars, issueVars, analyticsVars,
                 enhancedVars, authVars, channelVars>>

NextFM ==
  \/ \E v \in SearchTerms : SetSearchTerm(v)
  \/ \E v \in RatingFilters : SetRatingFilter(v)
  \/ \E v \in DateFilters : SetDateFilter(v)
  \/ ClearFilters
  \/ PreviousPage
  \/ NextPage
  \/ \E count \in CountValues : FetchComplete(count)

(* markAsRead of FeedbackManagement.tsx: an update of processed_at, then a *)
(* refetch of the list, then a toast.  The time of a click is the number   *)
(* of the write it starts.                                                 *)

MaxWrites == 2
InitMark ==
  /\ writes = 0
  /\ processedAt = [id \in FeedbackIds |-> 0]
  /\ markCalls = {}
  /\ markToast = "none"
  /\ marked = {}

\* the invocations there can be
MarkCallSet == [id : FeedbackIds, at : 1..MaxWrites, stage : {"update", "refetch"}]

\* the rows of a page of up to MaxPageRows rows
PageCounts == {Count(n) : n \in 0..MaxPageRows}

pageFeedbacks == feedbackData.feedbacks

\* disabled={!!feedback.processed_at}
MarkDisabled(row) == row.processed_at # 0

\* an update that clears the column of a row that has it set
ProcessedAtToggled(table, call) ==
  [table EXCEPT ![call.id] = IF table[call.id] # 0 THEN 0 ELSE call.at]

\* .update({ processed_at: new Date().toISOString() }).eq('id', feedbackId)
ProcessedAtUpdated(table, call) == [table EXCEPT ![call.id] = call.at]

\* a click on the Mark Read button of a displayed row
MarkClick(id) ==
  /\ writes < MaxWrites
  /\ ~isLoading
  /\ \E i \in DOMAIN pageFeedbacks :
       pageFeedbacks[i].id = id /\ ~MarkDisabled(pageFeedbacks[i])
  /\ writes' = writes + 1
  /\ markCalls' = markCalls \cup {[id |-> id, at |-> writes + 1, stage |-> "update"]}
  /\ marked' = marked \cup {id}
  /\ UNCHANGED <<processedAt, markToast>>
  /\ UNCHANGED <<notifVars, fmVars, searchVars, dashVars, loadVars, issueVars, analyticsVars,
                 enhancedVars, authVars, channelVars>>

\* the update resolves: if (error) throw error, caught with a destructive
\* toast; otherwise await refetch()
MarkUpdateResolve(call, rejected) ==
  /\ call \in markCalls
  /\ call.stage = "update"
  /\ IF rejected
     THEN /\ markCalls' = markCalls \ {call}
          /\ markToast' = "destructive"
          /\ UNCHANGED processedAt
     ELSE /\ processedAt' = ProcessedAtUpdated(processedAt, call)
          /\ markCalls' = (markCalls \ {call}) \cup {[call EXCEPT !.stage = "refetch"]}
          /\ UNCHANGED markToast
  /\ UNCHANGED <<writes, marked>>
  /\ UNCHANGED <<notifVars, fmVars, searchVars, dashVars, loadVars, issueVars, analyticsVars,
                 enhancedVars, authVars, channelVars>>

\* refetch() resolves (it does not throw: a failed refetch keeps the data),
\* then the toast "Marked as read"
MarkRefetchResolve(call, count, failed) ==
  /\ call \in markCalls
  /\ call.stage = "refetch"
  /\ markCalls' = markCalls \ {call}
  /\ markToast' = "Marked as read"
  /\ IF failed
     THEN UNCHANGED <<feedbackData, lastCount>>
     ELSE /\ feedbackData' = QueryResult(count)
          /\ lastCount' = count
  /\ UNCHANGED <<searchTerm, ratingFilter, dateFilter, currentPage>>
  /\ UNCHANGED <<writes, processedAt, marked>>
  /\ UNCHANGED <<notifVars, searchVars, dashVars, loadVars, issueVars, analyticsVars,
                 enhancedVars, authVars, channelVars>>

NextMark ==
  \/ \E count \in PageCounts : FetchComplete(count)
  \/ \E id \in FeedbackIds : MarkClick(id)
  \/ \E call \in MarkCallSet, rejected \in BOOLEAN : MarkUpdateResolve(call, rejected)
  \/ \E call \in MarkCallSet, count \in PageCounts, failed \in BOOLEAN :
       MarkRefetchResolve(call, count, failed)

----------------------------------------------------------------------------
(* part_003 (IssuesTracking): the issue list, the create dialog and the    *)
(* create and delete mutations.  The id of a created row is the number of  *)
(* the write that created it.                                              *)

IssueInputs == {"", " ", "a", " a"}

\* String.prototype.trim over IssueInputs
Trim(t) == IF t = " " THEN "" ELSE IF t = " a" THEN "a" ELSE t

\* the mutations there can be
CreateCallSet == [n : 1..MaxWrites, title : {Trim(t) : t \in IssueInputs}, username : BOOLEAN]
DeleteCallSet == [n : 1..MaxWrites, id : 0..MaxWrites]

InitIssues ==
  /\ issueTable = <<[id |-> 0, issue_title |-> "Login"]>>
  /\ issuesQuery = [status |-> "loading", data |-> <<>>]
  /\ issuesFetching = TRUE
  /\ newIssueTitle = ""
  /\ isCreateDialogOpen = FALSE
  /\ createCalls = {}
  /\ deleteCalls = {}
  /\ issueToast = "none"

issuesLoading == issuesQuery.status = "loading"

\* the queryFn of ['current_issues'] resolves
IssuesFetchResolve ==
  /\ issuesFetching
  /\ issuesQuery' = [status |-> "success", data |-> issueTable]
  /\ issuesFetching' = FALSE
  /\ UNCHANGED <<issueTable, newIssueTitle, isCreateDialogOpen, createCalls, deleteCalls,
                 issueToast>>
  /\ UNCHANGED <<notifVars, fmVars, searchVars, dashVars, loadVars, markVars, analyticsVars,
                 enhancedVars, authVars, channelVars>>

\* Dialog onOpenChange (the trigger, Cancel, Escape)
SetIsCreateDialogOpen(open) ==
  /\ ~issuesLoading
  /\ open # isCreateDialogOpen
  /\ isCreateDialogOpen' = open
  /\ UNCHANGED <<issueTable, issuesQuery, issuesFetching, newIssueTitle, createCalls,
                 deleteCalls, issueToast>>
  /\ UNCHANGED <<notifVars, fmVars, searchVars, dashVars, loadVars, markVars, analyticsVars,
                 enhancedVars, authVars, channelVars>>

\* onChange={(e) => setNewIssueTitle(e.target.value)}
SetNewIssueTitle(v) ==
  /\ isCreateDialogOpen
  /\ v # newIssueTitle
  /\ newIssueTitle' = v
  /\ UNCHANGED <<issueTable, issuesQuery, issuesFetching, isCreateDialogOpen, createCalls,
                 deleteCalls, issueToast>>
  /\ UNCHANGED <<notifVars, fmVars, searchVars, dashVars, loadVars, markVars, analyticsVars,
                 enhancedVars, authVars, channelVars>>

\* handleCreateIssue, from the button or from Enter in the input (the key
\* handler is not disabled while a mutation is pending)
handleCreateIssue(hasUsername) ==
  /\ writes < MaxWrites
  /\ isCreateDialogOpen
  /\ Trim(newIssueTitle) # ""
  /\ writes' = writes + 1
  /\ createCalls' = createCalls \cup
       {[n |-> writes + 1, title |-> Trim(newIssueTitle), username |-> hasUsername]}
  /\ UNCHANGED <<processedAt, markCalls, markToast, marked>>
  /\ UNCHANGED issueTable
  /\ UNCHANGED <<issuesQuery, issuesFetching, newIssueTitle, isCreateDialogOpen, deleteCalls,
                 issueToast>>
  /\ UNCHANGED <<notifVars, fmVars, searchVars, dashVars, loadVars, analyticsVars,
                 enhancedVars, authVars, channelVars>>

\* an onError that resets the form as onSuccess does
TitleAfterCreateCleared(rejected) == ""

\* setNewIssueTitle('') in onSuccess only
TitleAfterCreate(rejected) == IF rejected THEN newIssueTitle ELSE ""

\* createIssueMutation settles: onError, or the insert and onSuccess.  The
\* mutationFn throws before the insert when there is no username.
CreateResolve(call, rejected) ==
  /\ call \in createCalls
  /\ ~call.username => rejected
  /\ createCalls' = createCalls \ {call}
  /\ newIssueTitle' = TitleAfterCreate(rejected)
  /\ IF rejected
     THEN /\ issueToast' = "destructive"
          /\ UNCHANGED <<issueTable, issuesFetching, isCreateDialogOpen>>
     ELSE /\ issueTable' = <<[id |-> call.n, issue_title |-> call.title]>> \o issueTable
          /\ issuesFetching' = TRUE
          /\ isCreateDialogOpen' = FALSE
          /\ issueToast' = "Issue created"
  /\ UNCHANGED <<issuesQuery, deleteCalls>>
  /\ UNCHANGED <<notifVars, fmVars, searchVars, dashVars, loadVars, markVars, analyticsVars,
                 enhancedVars, authVars, channelVars>>

\* handleDeleteIssue after confirm(); the button is disabled while a delete
\* is pending
handleDeleteIssue(issueId) ==
  /\ writes < MaxWrites
  /\ ~issuesLoading
  /\ \E i \in DOMAIN issuesQuery.data : issuesQuery.data[i].id = issueId
  /\ deleteCalls = {}
  /\ writes' = writes + 1
  /\ deleteCalls' = {[n |-> writes + 1, id |-> issueId]}
  /\ UNCHANGED <<processedAt, markCalls, markToast, marked>>
  /\ UNCHANGED <<issueTable, issuesQuery, issuesFetching, newIssueTitle, isCreateDialogOpen,
                 createCalls, issueToast>>
  /\ UNCHANGED <<notifVars, fmVars, searchVars, dashVars, loadVars, analyticsVars,
                 enhancedVars, authVars, channelVars>>

\* .delete().eq('id', issueId)
WithoutIssue(table, issueId) == SelectSeq(table, LAMBDA r : r.id # issueId)

\* deleteIssueMutation settles
DeleteResolve(call, rejected) ==
  /\ call \in deleteCalls
  /\ deleteCalls' = deleteCalls \ {call}
  /\ IF rejected
     THEN /\ issueToast' = "destructive"
          /\ UNCHANGED <<issueTable, issuesFetching>>
     ELSE /\ issueTable' = WithoutIssue(issueTable, call.id)
          /\ issuesFetching' = TRUE
          /\ issueToast' = "Issue deleted"
  /\ UNCHANGED <<issuesQuery, newIssueTitle, isCreateDialogOpen, createCalls>>
  /\ UNCHANGED <<notifVars, fmVars, searchVars, dashVars, loadVars, markVars, analyticsVars,
                 enhancedVars, authVars, channelVars>>

NextIssues ==
  \/ IssuesFetchResolve
  \/ \E open \in BOOLEAN : SetIsCreateDialogOpen(open)
  \/ \E v \in IssueInputs : SetNewIssueTitle(v)
  \/ \E hasUsername \in BOOLEAN : handleCreateIssue(hasUsername)
  \/ \E call \in CreateCallSet, rejected \in BOOLEAN : CreateResolve(call, rejected)
  \/ \E issueId \in 0..MaxWrites : handleDeleteIssue(issueId)
  \/ \E call \in DeleteCallSet, rejected \in BOOLEAN : DeleteResolve(call, rejected)

\* every write of the client: marks of feedback rows and issue mutations
NextWrites == NextMark \/ NextIssues

----------------------------------------------------------------------------
(* AdvancedSearch.tsx                                                      *)
(* Time advances in ticks of 100 ms while a debounced call is scheduled.   *)
(* useQuery is keyed by the filters record: a render with a changed key    *)
(* and enabled = true issues a fetch for that key unless one is already in *)
(* flight.  The feedbacks table is a fixed set of rows smaller than the    *)
(* limit(50) of the query, so the limit and the ordering do not change the *)
(* set of rows returned.                                                   *)

DebounceWait == 3
MaxCalls == 2

FilterKeys == {"query", "rating", "dateRange", "sender", "sortBy", "sortOrder", "category"}

DefaultFilters ==
  [query |-> "", rating |-> "all", dateRange |-> "all", sender |-> "",
   sortBy |-> "received_at", sortOrder |-> "desc", category |-> "all"]

\* the values each control of the page can send to updateFilter
FilterValues(key) ==
  CASE key = "query" -> {"", "a"}
    [] key = "rating" -> {"all", "5", "4", "3", "2", "1"}
    [] key = "dateRange" -> {"all", "week"}
    [] key = "sender" -> {"", "s"}
    [] key = "sortOrder" -> {"desc", "asc"}
    [] OTHER -> {}

BoundaryRatings ==
  {NullRating} \cup {Num(t) : t \in {0, 14, 15, 24, 25, 34, 35, 44, 45, 50}}

SearchTable ==
  {[average_rating |-> r, subject |-> v[1], sender_name |-> v[2], daysAgo |-> v[3]] :
     r \in BoundaryRatings,
     v \in {<<"a", "s", 1>>, <<"b", "t", 30>>, <<"a", "t", 30>>}}

\* column ILIKE %pattern% over the one-letter texts of SearchTable
ILike(text, pattern) == pattern = "" \/ text = pattern

\* .gte('average_rating', t): SQL comparison, never true of NULL
Gte(r, t) == r.kind = "num" /\ r.tenths >= t
\* .lt('average_rating', t)
Lt(r, t) == r.kind = "num" /\ r.tenths < t

\* the rating filter with the upper bound of band '3' moved above 3.5
RatingMatchesShifted(sel, r) ==
  CASE sel = "all" -> TRUE
    [] sel = "5" -> Gte(r, 45)
    [] sel = "4" -> Gte(r, 35) /\ Lt(r, 45)
    [] sel = "3" -> Gte(r, 25) /\ Lt(r, 36)
    [] sel = "2" -> Gte(r, 15) /\ Lt(r, 25)
    [] sel = "1" -> Lt(r, 15)
    [] OTHER -> TRUE

\* queryFn: Apply rating filter
RatingMatches(sel, r) ==
  CASE sel = "all" -> TRUE
    [] sel = "5" -> Gte(r, 45)
    [] sel = "4" -> Gte(r, 35) /\ Lt(r, 45)
    [] sel = "3" -> Gte(r, 25) /\ Lt(r, 35)
    [] sel = "2" -> Gte(r, 15) /\ Lt(r, 25)
    [] sel = "1" -> Lt(r, 15)
    [] OTHER -> TRUE

\* queryFn: Apply date range filter (received_at >= startDate)
DateMatches(sel, row) ==
  CASE sel = "all" -> TRUE
    [] sel = "week" -> row.daysAgo <= 7
    [] OTHER -> TRUE

\* queryFn of the advanced-search query
RunQuery(f) ==
  {row \in SearchTable :
     /\ f.query # "" => (ILike(row.subject, f.query) \/ ILike(row.sender_name, f.query))
     /\ RatingMatches(f.rating, row.average_rating)
     /\ DateMatches(f.dateRange, row)
     /\ f.sender # "" => ILike(row.sender_name, f.sender)}

\* enabled: Object.values(filters).some(v => v !== '' && v !== 'all')
EnabledFor(f) == \E k \in FilterKeys : f[k] # "" /\ f[k] # "all"

enabled == EnabledFor(filters)

activeFiltersCount ==
  Cardinality({k \in FilterKeys :
                 filters[k] # "" /\ filters[k] # "all" /\ k # "sortBy" /\ k # "sortOrder"})

PendingResults == [status |-> "pending", rows |-> {}]

\* a render with query key f: the observer fetches when enabled and not yet in flight
Issues(f) == EnabledFor(f) /\ f \notin searchInflight

InitSearch ==
  /\ filters = DefaultFilters
  /\ timerPending = FALSE
  /\ elapsed = 0
  /\ debouncedArgs = DefaultFilters
  /\ searchInflight = IF EnabledFor(DefaultFilters) THEN {DefaultFilters} ELSE {}
  /\ searchResults = PendingResults
  /\ updateCalls = 0
  /\ burstCalls = 0
  /\ burstIssued = 0
  /\ lastIssued = DefaultFilters

\* updateFilter(key, value): setFilters(newFilters); debouncedSearch(newFilters)
updateFilter(key, value) ==
  LET newFilters == [filters EXCEPT ![key] = value]
      issued == IF Issues(newFilters) THEN 1 ELSE 0
  IN /\ updateCalls < MaxCalls
     /\ value # filters[key]
     /\ filters' = newFilters
     /\ timerPending' = TRUE
     /\ elapsed' = 0
     /\ debouncedArgs' = newFilters
     /\ searchInflight' = IF Issues(newFilters) THEN searchInflight \cup {newFilters}
                          ELSE searchInflight
     /\ searchResults' = PendingResults
     /\ updateCalls' = updateCalls + 1
     /\ burstCalls' = IF timerPending THEN burstCalls + 1 ELSE 1
     /\ burstIssued' = IF timerPending THEN burstIssued + issued ELSE issued
     /\ lastIssued' = IF Issues(newFilters) THEN newFilters ELSE lastIssued
     /\ UNCHANGED <<notifVars, fmVars, dashVars, loadVars, markVars, issueVars, analyticsVars,
                 enhancedVars, authVars, channelVars>>

\* 100 ms pass before the trailing edge of the debounce
Tick ==
  /\ timerPending
  /\ elapsed < DebounceWait
  /\ elapsed' = elapsed + 1
  /\ UNCHANGED <<filters, timerPending, debouncedArgs, searchInflight, searchResults,
                 updateCalls, burstCalls, burstIssued, lastIssued>>
  /\ UNCHANGED <<notifVars, fmVars, dashVars, loadVars, markVars, issueVars, analyticsVars,
                 enhancedVars, authVars, channelVars>>

\* trailing edge of debounce(..., 300): the debounced function body is empty
DebounceFire ==
  /\ timerPending
  /\ elapsed = DebounceWait
  /\ timerPending' = FALSE
  /\ UNCHANGED <<filters, elapsed, debouncedArgs, searchInflight, searchResults,
                 updateCalls, burstCalls, burstIssued, lastIssued>>
  /\ UNCHANGED <<notifVars, fmVars, dashVars, loadVars, markVars, issueVars, analyticsVars,
                 enhancedVars, authVars, channelVars>>

\* clearFilters (the button is rendered when activeFiltersCount > 0)
clearFilters ==
  /\ activeFiltersCount > 0
  /\ filters' = DefaultFilters
  /\ searchInflight' = IF Issues(DefaultFilters) THEN searchInflight \cup {DefaultFilters}
                       ELSE searchInflight
  /\ searchResults' = IF filters = DefaultFilters THEN searchResults ELSE PendingResults
  /\ UNCHANGED <<timerPending, elapsed, debouncedArgs, updateCalls, burstCalls,
                 burstIssued, lastIssued>>
  /\ UNCHANGED <<notifVars, fmVars, dashVars, loadVars, markVars, issueVars, analyticsVars,
                 enhancedVars, authVars, channelVars>>

\* the fetch of query key f resolves; its rows are shown when f is still the key
SearchResolve(f) ==
  /\ f \in searchInflight
  /\ searchInflight' = searchInflight \ {f}
  /\ searchResults' = IF f = filters THEN [status |-> "success", rows |-> RunQuery(f)]
                      ELSE searchResults
  /\ UNCHANGED <<filters, timerPending, elapsed, debouncedArgs, updateCalls, burstCalls,
                 burstIssued, lastIssued>>
  /\ UNCHANGED <<notifVars, fmVars, dashVars, loadVars, markVars, issueVars, analyticsVars,
                 enhancedVars, authVars, channelVars>>

NextSearch ==
  \/ \E key \in FilterKeys : \E value \in FilterValues(key) : updateFilter(key, value)
  \/ Tick
  \/ DebounceFire
  \/ clearFilters
  \/ \E f \in searchInflight : SearchResolve(f)

----------------------------------------------------------------------------
(* Aggregation: inputs of the dashboards.                                  *)

MaxFeedbacks == 2
MaxIssues == 4
AggRatings == {NullRating, Num(0), Num(25), Num(40)}
IssueTitles == {"Login", "Crash", "10", "7"}

FeedbackLists == SeqUpTo([average_rating : AggRatings], MaxFeedbacks)
IssueLists == SeqUpTo([issue_title : IssueTitles], MaxIssues)

\* Number(x.toFixed(1)) of a quotient of tenths: nearest tenth, halves upwards
RoundDiv(a, b) == (2 * a + b) \div (2 * b)

Positive(f) == NumberOrZero(f.average_rating) >= 40
\* a Neutral bucket that leaves out the rating 2.5 itself
NeutralAbove(f) == NumberOrZero(f.average_rating) > 25 /\ NumberOrZero(f.average_rating) < 40
Neutral(f) == NumberOrZero(f.average_rating) >= 25 /\ NumberOrZero(f.average_rating) < 40
Negative(f) == NumberOrZero(f.average_rating) < 25

\* sentimentData: the three filter(...).length values
SentimentCounts(feedbacks) ==
  [positive |-> Cardinality({i \in 1..Len(feedbacks) : Positive(feedbacks[i])}),
   neutral |-> Cardinality({i \in 1..Len(feedbacks) : Neutral(feedbacks[i])}),
   negative |-> Cardinality({i \in 1..Len(feedbacks) : Negative(feedbacks[i])})]

\* a title that is a canonical array index ("7", "10"): such property keys are
\* enumerated first, in ascending numeric order
IsArrayIndex(title) == title \in {"10", "7"}
IndexValue(title) == CASE title = "7" -> 7 [] title = "10" -> 10 [] OTHER -> 0

Occurrences(issues, title) ==
  Cardinality({i \in 1..Len(issues) : issues[i].issue_title = title})

\* titles in order of first arrival
RECURSIVE FirstArrivals(_)
FirstArrivals(issues) ==
  IF issues = <<>> THEN <<>>
  ELSE LET front == SubSeq(issues, 1, Len(issues) - 1)
           last == issues[Len(issues)].issue_title
       IN IF Occurrences(front, last) > 0 THEN FirstArrivals(front)
          ELSE Append(FirstArrivals(front), last)

\* ascending sequence of the array-index titles in S
RECURSIVE AscendingIndices(_)
AscendingIndices(S) ==
  IF S = {} THEN <<>>
  ELSE LET least == CHOOSE t \in S : \A u \in S : IndexValue(t) <= IndexValue(u)
       IN <<least>> \o AscendingIndices(S \ {least})

IsNotArrayIndex(title) == ~IsArrayIndex(title)

\* property order of the issueCounts object: array indices ascending, then the
\* other keys in insertion order
OwnKeys(issues) ==
  LET arrivals == FirstArrivals(issues)
      indices == {arrivals[i] : i \in {j \in 1..Len(arrivals) : IsArrayIndex(arrivals[j])}}
  IN AscendingIndices(indices) \o SelectSeq(arrivals, IsNotArrayIndex)

\* Object.entries(issueCounts).map(([title, count]) => ({ title, count }))
IssueEntries(issues) ==
  LET keys == OwnKeys(issues)
  IN [i \in 1..Len(keys) |-> [title |-> keys[i], count |-> Occurrences(issues, keys[i])]]

\* Array.prototype.sort((a, b) => b.count - a.count): stable, descending by count
RECURSIVE InsertByCount(_, _)
InsertByCount(e, sorted) ==
  IF sorted = <<>> THEN <<e>>
  ELSE IF Head(sorted).count >= e.count THEN <<Head(sorted)>> \o InsertByCount(e, Tail(sorted))
  ELSE <<e>> \o sorted

RECURSIVE SortByCountDesc(_)
SortByCountDesc(s) ==
  IF s = <<>> THEN <<>>
  ELSE InsertByCount(s[Len(s)], SortByCountDesc(SubSeq(s, 1, Len(s) - 1)))

----------------------------------------------------------------------------
(* DashboardOverview.tsx: two queries and the values derived on render.    *)

DashShown == 5

NoData == [status |-> "loading", data |-> <<>>]

InitDash ==
  /\ dashFeedbacks = NoData
  /\ dashIssues = NoData

\* the ['feedbacks'] query resolves
DashFeedbacksResolve(rows) ==
  /\ dashFeedbacks.status = "loading"
  /\ dashFeedbacks' = [status |-> "success", data |-> rows]
  /\ UNCHANGED dashIssues
  /\ UNCHANGED <<notifVars, fmVars, searchVars, loadVars, markVars, issueVars, analyticsVars,
                 enhancedVars, authVars, channelVars>>

\* the ['current_issues'] query resolves
DashIssuesResolve(rows) ==
  /\ dashIssues.status = "loading"
  /\ dashIssues' = [status |-> "success", data |-> rows]
  /\ UNCHANGED dashFeedbacks
  /\ UNCHANGED <<notifVars, fmVars, searchVars, loadVars, markVars, issueVars, analyticsVars,
                 enhancedVars, authVars, channelVars>>

\* const { data: feedbacks = [] }
feedbacks == dashFeedbacks.data
issues == dashIssues.data

\* averageRating.toFixed(1), in tenths
averageRating ==
  IF Len(feedbacks) > 0
  THEN RoundDiv(SumSeq([i \in 1..Len(feedbacks) |-> NumberOrZero(feedbacks[i].average_rating)]),
                Len(feedbacks))
  ELSE 0

sentimentData == SentimentCounts(feedbacks)

\* issuesData, as charted: issuesData.slice(0, 5)
issuesData == Slice0(IssueEntries(issues), DashShown)

NextDash ==
  \/ \E rows \in FeedbackLists : DashFeedbacksResolve(rows)
  \/ \E rows \in IssueLists : DashIssuesResolve(rows)

----------------------------------------------------------------------------
(* part_002: DashboardOverview with loadDashboardData.                     *)
(* pc is the await loadDashboardData is suspended at.  Each backend call   *)
(* either resolves or rejects; a rejection runs the catch block and then   *)
(* the finally block.                                                      *)

TopN == 3
RecentShown == 5

NoStats == [present |-> FALSE, totalFeedback |-> 0, averageRating |-> 0,
            topIssues |-> <<>>, recentFeedback |-> <<>>]

InitLoad ==
  /\ pc = "mounted"
  /\ loading = TRUE
  /\ stats = NoStats
  /\ user = FALSE
  /\ totalFeedback = 0
  /\ feedbackRows = <<>>
  /\ issueRows = <<>>
  /\ loadToast = FALSE

\* feedbackData.filter(f => f.average_rating): null and 0 are falsy
HasRating(f) == f.average_rating.kind = "num" /\ f.average_rating.tenths # 0

\* Number(averageRating.toFixed(1)), in tenths
LoadAverageRating(rows) ==
  LET ratingsData == SelectSeq(rows, HasRating)
  IN IF Len(ratingsData) > 0
     THEN RoundDiv(SumSeq([i \in 1..Len(ratingsData) |-> ratingsData[i].average_rating.tenths]),
                   Len(ratingsData))
     ELSE 0

\* Object.entries(issueCounts).map(...).sort((a, b) => b.count - a.count).slice(0, 3)
TopIssues(rows) == Slice0(SortByCountDesc(IssueEntries(rows)), TopN)

\* useEffect(() => { loadDashboardData() }, [user]) up to the first await
LoadStart ==
  /\ pc = "mounted"
  /\ IF ~user
     THEN /\ pc' = "returned"
          /\ UNCHANGED loading
     ELSE /\ pc' = "awaitUser"
          /\ loading' = TRUE
  /\ UNCHANGED <<stats, user, totalFeedback, feedbackRows, issueRows, loadToast>>
  /\ UNCHANGED <<notifVars, fmVars, searchVars, dashVars, markVars, issueVars, analyticsVars,
                 enhancedVars, authVars, channelVars>>

\* the auth context delivers the session: the [user] effect runs again
SignedIn ==
  /\ ~user
  /\ pc = "returned"
  /\ user' = TRUE
  /\ pc' = "mounted"
  /\ UNCHANGED <<loading, stats, totalFeedback, feedbackRows, issueRows, loadToast>>
  /\ UNCHANGED <<notifVars, fmVars, searchVars, dashVars, markVars, issueVars, analyticsVars,
                 enhancedVars, authVars, channelVars>>

\* the users lookup resolves: with userError the function returns through finally
UserResolved(userError) ==
  /\ pc = "awaitUser"
  /\ IF userError
     THEN /\ pc' = "returned"
          /\ loading' = FALSE
     ELSE /\ pc' = "awaitCount"
          /\ UNCHANGED loading
  /\ UNCHANGED <<stats, user, totalFeedback, feedbackRows, issueRows, loadToast>>
  /\ UNCHANGED <<notifVars, fmVars, searchVars, dashVars, markVars, issueVars, analyticsVars,
                 enhancedVars, authVars, channelVars>>

\* the head count query resolves
CountResolved(count) ==
  /\ pc = "awaitCount"
  /\ totalFeedback' = count
  /\ pc' = "awaitFeedback"
  /\ UNCHANGED <<loading, stats, user, feedbackRows, issueRows, loadToast>>
  /\ UNCHANGED <<notifVars, fmVars, searchVars, dashVars, markVars, issueVars, analyticsVars,
                 enhancedVars, authVars, channelVars>>

\* the recent feedback query resolves
FeedbackResolved(rows) ==
  /\ pc = "awaitFeedback"
  /\ feedbackRows' = rows
  /\ pc' = "awaitIssues"
  /\ UNCHANGED <<loading, stats, user, totalFeedback, issueRows, loadToast>>
  /\ UNCHANGED <<notifVars, fmVars, searchVars, dashVars, markVars, issueVars, analyticsVars,
                 enhancedVars, authVars, channelVars>>

\* the current_issues query resolves: statistics, setStats, finally
IssuesResolved(rows) ==
  /\ pc = "awaitIssues"
  /\ issueRows' = rows
  /\ stats' = [present |-> TRUE,
               totalFeedback |-> totalFeedback,
               averageRating |-> LoadAverageRating(feedbackRows),
               topIssues |-> TopIssues(rows),
               recentFeedback |-> Slice0(feedbackRows, RecentShown)]
  /\ loading' = FALSE
  /\ pc' = "returned"
  /\ UNCHANGED <<user, totalFeedback, feedbackRows, loadToast>>
  /\ UNCHANGED <<notifVars, fmVars, searchVars, dashVars, markVars, issueVars, analyticsVars,
                 enhancedVars, authVars, channelVars>>

\* an awaited call rejects: catch (toast) and finally
LoadRejected ==
  /\ pc \in {"awaitUser", "awaitCount", "awaitFeedback", "awaitIssues"}
  /\ loadToast' = TRUE
  /\ loading' = FALSE
  /\ pc' = "returned"
  /\ UNCHANGED <<stats, user, totalFeedback, feedbackRows, issueRows>>
  /\ UNCHANGED <<notifVars, fmVars, searchVars, dashVars, markVars, issueVars, analyticsVars,
                 enhancedVars, authVars, channelVars>>

\* the call loadDashboardData is suspended at settles, one way or the other
LoadSettles ==
  \/ \E userError \in BOOLEAN : UserResolved(userError)
  \/ \E count \in 0..MaxFeedbacks : CountResolved(count)
  \/ \E rows \in FeedbackLists : FeedbackResolved(rows)
  \/ \E rows \in IssueLists : IssuesResolved(rows)
  \/ LoadRejected

NextLoad ==
  \/ LoadStart
  \/ SignedIn
  \/ \E userError \in BOOLEAN : UserResolved(userError)
  \/ \E count \in 0..MaxFeedbacks : CountResolved(count)
  \/ \E rows \in FeedbackLists : FeedbackResolved(rows)
  \/ \E rows \in IssueLists : IssuesResolved(rows)
  \/ LoadRejected

----------------------------------------------------------------------------
(* Analytics.tsx: two queries, the chartData memo and the stats memo.      *)
(* received_at is carried as the local calendar day of the row, counted in *)
(* days before the day of the render, and its local hour; the rows arrive  *)
(* ordered by received_at ascending.  Math.random() is a draw in tenths.   *)

WeekDays == 7
HoursPerDay == 24
AnalyticsDays == {0, 2, 8}
AnalyticsHours == {0, 23}
AnalyticsRatings == {NullRating, Num(40)}
AnalyticsRows == [average_rating : AnalyticsRatings, day : AnalyticsDays, hour : AnalyticsHours]

\* .order('received_at', { ascending: true })
ReceivedBefore(a, b) == a.day > b.day \/ (a.day = b.day /\ a.hour <= b.hour)

AnalyticsLists ==
  {l \in SeqUpTo(AnalyticsRows, MaxFeedbacks) :
     \A i \in 1..(Len(l) - 1) : ReceivedBefore(l[i], l[i + 1])}

\* only issues.length is read
AnalyticsIssueLists == SeqUpTo([issue_title : {"Login"}], MaxIssues)

RandomTenths == {0, 5}
RandomDraws == [1..5 -> RandomTenths]

NoAnalyticsStats ==
  [present |-> FALSE, totalFeedback |-> 0, ratingSum |-> 0, responseRate |-> 0,
   avgResponseTime |-> 0, feedbackTrend |-> 0, ratingTrend |-> 0,
   responseRateTrend |-> 0, totalIssues |-> 0]

InitAnalytics ==
  /\ analyticsFeedbacks = NoData
  /\ analyticsIssues = NoData
  /\ analyticsStats = NoAnalyticsStats

\* feedbacks.filter(f => new Date(f.received_at).toLocaleDateString() === dateStr)
RowsOnDay(rows, day) == SelectSeq(rows, LAMBDA f : f.day = day)

\* feedbacks.filter(f => new Date(f.received_at).getHours() === hour)
RowsAtHour(rows, hour) == SelectSeq(rows, LAMBDA f : f.hour = hour)

RatingSum(rows) == SumSeq([i \in 1..Len(rows) |-> NumberOrZero(rows[i].average_rating)])

\* timeSeriesData: the reduce adds a row to the entry of its date, or pushes
\* a new entry (avgRating is totalRating / count)
RECURSIVE TimeSeriesFrom(_, _)
TimeSeriesFrom(acc, rest) ==
  IF rest = <<>> THEN acc
  ELSE LET f == Head(rest)
           rating == NumberOrZero(f.average_rating)
       IN IF \E k \in DOMAIN acc : acc[k].date = f.day
          THEN LET k == CHOOSE k \in DOMAIN acc : acc[k].date = f.day
               IN TimeSeriesFrom(
                    [acc EXCEPT ![k] = [date |-> f.day, count |-> acc[k].count + 1,
                                        totalRating |-> acc[k].totalRating + rating]],
                    Tail(rest))
          ELSE TimeSeriesFrom(
                 Append(acc, [date |-> f.day, count |-> 1, totalRating |-> rating]),
                 Tail(rest))

TimeSeriesData(rows) == TimeSeriesFrom(<<>>, rows)

\* weeklyData: for (let i = 6; i >= 0; i--), the day i days before today
WeeklyData(rows) ==
  [k \in 1..WeekDays |->
     LET day == WeekDays - k
     IN [date |-> day, feedback |-> Len(RowsOnDay(rows, day)),
         ratingSum |-> RatingSum(RowsOnDay(rows, day))]]

\* hourlyData: Array.from({ length: 24 }, (_, hour) => ...)
HourlyData(rows) ==
  [k \in 1..HoursPerDay |-> [hour |-> k - 1, count |-> Len(RowsAtHour(rows, k - 1))]]

\* the chartData memo: null for an empty list
ChartDataOf(rows) ==
  IF Len(rows) = 0
  THEN [present |-> FALSE, timeSeriesData |-> <<>>, sentimentData |-> SentimentCounts(<<>>),
        weeklyData |-> <<>>, hourlyData |-> <<>>]
  ELSE [present |-> TRUE, timeSeriesData |-> TimeSeriesData(rows),
        sentimentData |-> SentimentCounts(rows),
        weeklyData |-> WeeklyData(rows), hourlyData |-> HourlyData(rows)]

chartData == ChartDataOf(analyticsFeedbacks.data)

\* the stats memo; draws are the five Math.random() values in call order
\* (avgRating is ratingSum / totalFeedback)
StatsOf(rows, issueList, draws) ==
  IF Len(rows) = 0 THEN NoAnalyticsStats
  ELSE [present |-> TRUE,
        totalFeedback |-> Len(rows),
        ratingSum |-> RatingSum(rows),
        responseRate |-> 2 * draws[1] + 80,
        avgResponseTime |-> RoundDiv(4 * draws[2] + 20, 10),
        feedbackTrend |-> 4 * draws[3] - 20,
        ratingTrend |-> 2 * draws[4] - 10,
        responseRateTrend |-> draws[5] - 5,
        totalIssues |-> Len(issueList)]

\* isLoading of the component is that of the ['analytics-feedbacks'] query
analyticsIsLoading == analyticsFeedbacks.status = "loading"

\* neither the skeleton (isLoading) nor the empty state (!chartData || !stats)
AnalyticsContentShown ==
  ~analyticsIsLoading /\ chartData.present /\ analyticsStats.present

\* the ['analytics-feedbacks'] query resolves; the render evaluates the memo
AnalyticsFeedbacksResolve(rows, draws) ==
  /\ analyticsFeedbacks.status = "loading"
  /\ analyticsFeedbacks' = [status |-> "success", data |-> rows]
  /\ analyticsStats' = StatsOf(rows, analyticsIssues.data, draws)
  /\ UNCHANGED analyticsIssues
  /\ UNCHANGED <<notifVars, fmVars, searchVars, dashVars, loadVars, markVars, issueVars,
                 enhancedVars, authVars, channelVars>>

\* the ['analytics-issues'] query resolves; the render evaluates the memo
AnalyticsIssuesResolve(rows, draws) ==
  /\ analyticsIssues.status = "loading"
  /\ analyticsIssues' = [status |-> "success", data |-> rows]
  /\ analyticsStats' = StatsOf(analyticsFeedbacks.data, rows, draws)
  /\ UNCHANGED analyticsFeedbacks
  /\ UNCHANGED <<notifVars, fmVars, searchVars, dashVars, loadVars, markVars, issueVars,
                 enhancedVars, authVars, channelVars>>

\* the memo is evaluated again on the same lists: the component is mounted
\* again with the cached query data, or it renders while issues is the
\* default [] (a new array on every render, so the memo's deps differ)
AnalyticsRender(draws) ==
  /\ analyticsFeedbacks.status = "success"
  /\ analyticsStats' = StatsOf(analyticsFeedbacks.data, analyticsIssues.data, draws)
  /\ UNCHANGED <<analyticsFeedbacks, analyticsIssues>>
  /\ UNCHANGED <<notifVars, fmVars, searchVars, dashVars, loadVars, markVars, issueVars,
                 enhancedVars, authVars, channelVars>>

NextAnalytics ==
  \/ \E rows \in AnalyticsLists, draws \in RandomDraws : AnalyticsFeedbacksResolve(rows, draws)
  \/ \E rows \in AnalyticsIssueLists, draws \in RandomDraws :
       AnalyticsIssuesResolve(rows, draws)
  \/ \E draws \in RandomDraws : AnalyticsRender(draws)

----------------------------------------------------------------------------
(* EnhancedDashboardOverview.tsx: one query whose queryFn awaits three     *)
(* reads with Promise.all and is run again every 30 seconds.  A read that  *)
(* fails resolves with { data: null, error }; it does not throw.  Rows are *)
(* carried as their ids.                                                   *)

EnhancedTables == {"feedbacks", "current_issues", "users"}
EnhancedLists == {<<>>, <<1>>, <<2, 1>>}

Idle == [state |-> "idle", error |-> FALSE, data |-> <<>>]
Pending == [state |-> "pending", error |-> FALSE, data |-> <<>>]
\* { data: null, error }: the null is carried as the empty list that
\* data || [] makes of it
ReadFailed == [state |-> "settled", error |-> TRUE, data |-> <<>>]
ReadOk(rows) == [state |-> "settled", error |-> FALSE, data |-> rows]
ReadResults == {ReadFailed} \cup {ReadOk(rows) : rows \in EnhancedLists}

InitEnhanced ==
  /\ dashboardData = [status |-> "loading", feedbacks |-> <<>>, issues |-> <<>>, users |-> <<>>]
  /\ enhancedReads = [t \in EnhancedTables |-> Pending]
  /\ enhancedFailed = FALSE
  /\ enhancedErrorShown = FALSE

\* refetchInterval: 30000
EnhancedRefetch ==
  /\ \A t \in EnhancedTables : enhancedReads[t].state = "idle"
  /\ enhancedReads' = [t \in EnhancedTables |-> Pending]
  /\ UNCHANGED <<dashboardData, enhancedFailed, enhancedErrorShown>>
  /\ UNCHANGED <<notifVars, fmVars, searchVars, dashVars, loadVars, markVars, issueVars,
                 analyticsVars, authVars, channelVars>>

\* { feedbacks: feedbacksResult.data || [], issues: ..., users: ... }
EnhancedResult(reads) ==
  [status |-> "success", feedbacks |-> reads["feedbacks"].data,
   issues |-> reads["current_issues"].data, users |-> reads["users"].data]

\* a read settles; when it is the last of the three, Promise.all resolves
\* and the queryFn returns
EnhancedReadSettles(table, result) ==
  /\ enhancedReads[table].state = "pending"
  /\ LET reads == [enhancedReads EXCEPT ![table] = result]
     IN IF \A t \in EnhancedTables : reads[t].state = "settled"
        THEN /\ dashboardData' = EnhancedResult(reads)
             /\ enhancedReads' = [t \in EnhancedTables |-> Idle]
             /\ enhancedFailed' = \E t \in EnhancedTables : reads[t].error
        ELSE /\ enhancedReads' = reads
             /\ UNCHANGED <<dashboardData, enhancedFailed>>
  /\ UNCHANGED enhancedErrorShown
  /\ UNCHANGED <<notifVars, fmVars, searchVars, dashVars, loadVars, markVars, issueVars,
                 analyticsVars, authVars, channelVars>>

NextEnhanced ==
  \/ EnhancedRefetch
  \/ \E table \in EnhancedTables, result \in ReadResults : EnhancedReadSettles(table, result)

----------------------------------------------------------------------------
(* The subscription effect of RealTimeNotifications.tsx.  A channel is the *)
(* number of its creation; the realtime client calls the handlers of a     *)
(* channel only while the channel is subscribed and not removed.  A user   *)
(* is 0 (null) or the number of an account.  The state of the component is *)
(* created anew on every mount.                                            *)

MaxChannels == 3
MaxChannelEvents == 2
NotifUsers == {0, 1, 2}
ChannelIds == 1..(MaxChannels + 1)
ChannelRatings == {Num(29), Num(30)}

InitChannel ==
  /\ notifUser = 0
  /\ notifMounted = TRUE
  /\ channels = {}
  /\ channelsMade = 0
  /\ effectChannel = 0
  /\ handlerChannel = 0

\* a cleanup that leaves the channel subscribed
RemoveChannelKept(subscribed, c) == subscribed
\* supabase.removeChannel(feedbackChannel)
RemoveChannel(subscribed, c) == subscribed \ {c}

\* The effect on [user, toast] for user u: the cleanup of the run before,
\* then `if (!user) return`, then channel(...).on(...).on(...).subscribe()
SubscriptionEffect(u) ==
  IF u = 0
  THEN /\ channels' = RemoveChannel(channels, effectChannel)
       /\ effectChannel' = 0
       /\ UNCHANGED channelsMade
  ELSE /\ channels' = RemoveChannel(channels, effectChannel) \cup {channelsMade + 1}
       /\ effectChannel' = channelsMade + 1
       /\ channelsMade' = channelsMade + 1

channelOthers == <<fmVars, searchVars, dashVars, loadVars, markVars, issueVars,
                   analyticsVars, enhancedVars, authVars>>

\* useAuth().user changes: sign-in, sign-out or another account
SetNotifUser(u) ==
  /\ u # notifUser
  /\ u # 0 /\ notifMounted => channelsMade < MaxChannels
  /\ notifUser' = u
  /\ IF notifMounted
     THEN SubscriptionEffect(u)
     ELSE UNCHANGED <<channels, effectChannel, channelsMade>>
  /\ UNCHANGED <<notifMounted, handlerChannel>>
  /\ UNCHANGED notifVars
  /\ UNCHANGED channelOthers

\* the component unmounts: the cleanup of the effect run last
NotifUnmount ==
  /\ notifMounted
  /\ notifMounted' = FALSE
  /\ channels' = RemoveChannel(channels, effectChannel)
  /\ effectChannel' = 0
  /\ UNCHANGED <<notifUser, channelsMade, handlerChannel>>
  /\ UNCHANGED notifVars
  /\ UNCHANGED channelOthers

\* the component mounts: useState([]) and the first run of the effect
NotifMount ==
  /\ ~notifMounted
  /\ notifUser # 0 => channelsMade < MaxChannels
  /\ notifMounted' = TRUE
  /\ notifications' = <<>>
  /\ SubscriptionEffect(notifUser)
  /\ UNCHANGED <<notifUser, handlerChannel>>
  /\ UNCHANGED <<delivered, lastPayload, lastOp>>
  /\ UNCHANGED channelOthers

\* an INSERT event of feedbacks arrives on channel c
ChannelFeedbackInsert(c, rating) ==
  /\ c \in channels
  /\ delivered < MaxChannelEvents
  /\ delivered' = delivered + 1
  /\ lastPayload' = [table |-> "feedbacks", average_rating |-> rating]
  /\ lastOp' = "insert"
  /\ notifications' = Prepend([id |-> delivered + 1, type |-> "feedback",
                               read |-> FALSE,
                               priority |-> FeedbackPriority(rating)],
                              notifications)
  /\ handlerChannel' = c
  /\ UNCHANGED <<notifUser, notifMounted, channels, channelsMade, effectChannel>>
  /\ UNCHANGED channelOthers

\* an INSERT event of current_issues arrives on channel c
ChannelIssueInsert(c) ==
  /\ c \in channels
  /\ delivered < MaxChannelEvents
  /\ delivered' = delivered + 1
  /\ lastPayload' = [table |-> "current_issues", average_rating |-> UndefinedRating]
  /\ lastOp' = "insert"
  /\ notifications' = Prepend([id |-> delivered + 1, type |-> "issue",
                               read |-> FALSE, priority |-> "high"],
                              notifications)
  /\ handlerChannel' = c
  /\ UNCHANGED <<notifUser, notifMounted, channels, channelsMade, effectChannel>>
  /\ UNCHANGED channelOthers

NextChannel ==
  \/ \E u \in NotifUsers : SetNotifUser(u)
  \/ NotifUnmount
  \/ NotifMount
  \/ \E c \in ChannelIds, rating \in ChannelRatings : ChannelFeedbackInsert(c, rating)
  \/ \E c \in ChannelIds : ChannelIssueInsert(c)

----------------------------------------------------------------------------
(* AuthModal (EnhancedDashboardOverview.tsx:484-902).  Time is not counted: *)
(* a timer that is set and not cleared may fire at any later moment, and    *)
(* an edit made while a timer is pending is an edit made within its 500 ms. *)
(* The fields of a form other than the username are read when the form is   *)
(* submitted.  signIn, signUp, resetPassword and checkUsernameAvailability  *)
(* come from the auth context and may resolve or reject.                    *)

MaxChecks == 3
Usernames == {"", "ab", "abc", "abcd", "abcdefghijklmnopqrstu"}
Modes == {"login", "register"}
Views == {"auth", "reset"}
\* the other fields of the register form: email, password, confirmPassword
RegisterForms == [emailOk : BOOLEAN, passwordLength : {5, 6}, confirmMatches : BOOLEAN]
NoAuthCall == [kind |-> "none", username |-> "", valid |-> FALSE, state |-> "none"]
TimerSet == [id : 1..(MaxChecks + 1), username : Usernames]
Answers == {"available", "taken", "rejected"}

InitAuth ==
  /\ isOpen = FALSE /\ mode = "register"
  /\ currentView = "auth" /\ authLoading = FALSE /\ usernameStatus = "idle"
  /\ username = ""
  /\ checkTimeout = 0 /\ effectTimeout = 0
  /\ timers = {} /\ availabilityCalls = {}
  /\ authCall = NoAuthCall
  /\ checks = 0
  /\ statusFor = ""
  /\ formErrors = FALSE

\* registerSchema
RegisterValid(u, form) ==
  /\ Len(u) >= 3 /\ Len(u) <= 20
  /\ form.emailOk
  /\ form.passwordLength >= 6
  /\ form.confirmMatches

\* mode === 'register' && username && username.length >= 3
StartsCheck(u, m) == m = "register" /\ Len(u) >= 3

\* clearTimeout(handle): clearing null or a timer that has fired does nothing
ClearTimeout(pending, handle) == {t \in pending : t.id # handle}

BodyClearsTimers(pending) == ClearTimeout(pending, checkTimeout)

\* The effect on [username, mode] after a render with username u and mode m:
\* first the cleanup of the run before (it clears the handle that run had
\* captured), then the body.
UsernameEffect(u, m) ==
  /\ effectTimeout' = checkTimeout
  /\ IF StartsCheck(u, m)
     THEN /\ timers' = BodyClearsTimers(ClearTimeout(timers, effectTimeout))
                         \cup {[id |-> checks + 1, username |-> u]}
          /\ usernameStatus' = "checking"
          /\ checkTimeout' = checks + 1
          /\ checks' = checks + 1
     ELSE /\ timers' = ClearTimeout(timers, effectTimeout)
          /\ usernameStatus' = "idle"
          /\ UNCHANGED <<checkTimeout, checks>>

authOthers == <<notifVars, fmVars, searchVars, dashVars, loadVars, markVars, issueVars,
                   analyticsVars, enhancedVars, channelVars>>

\* the user types in the username field of the register form
SetUsername(u) ==
  /\ isOpen /\ currentView = "auth" /\ mode = "register"
  /\ u # username
  /\ StartsCheck(u, mode) => checks < MaxChecks
  /\ username' = u
  /\ UsernameEffect(u, mode)
  /\ UNCHANGED <<isOpen, mode, currentView, authLoading, availabilityCalls, authCall,
                 statusFor, formErrors>>
  /\ UNCHANGED authOthers

\* onModeChange(mode === 'login' ? 'register' : 'login')
ToggleMode ==
  /\ isOpen /\ currentView = "auth"
  /\ LET m == IF mode = "login" THEN "register" ELSE "login"
     IN /\ StartsCheck(username, m) => checks < MaxChecks
        /\ mode' = m
        /\ UsernameEffect(username, m)
  /\ UNCHANGED <<isOpen, currentView, authLoading, username, availabilityCalls, authCall,
                 statusFor, formErrors>>
  /\ UNCHANGED authOthers

\* openAuthModal(mode) of the parent; the field is empty after the reset of
\* the last close, so the effect takes its else branch when the mode changed
OpenModal(m) ==
  /\ ~isOpen
  /\ isOpen' = TRUE /\ mode' = m
  /\ IF m # mode
     THEN UsernameEffect(username, m)
     ELSE UNCHANGED <<usernameStatus, checkTimeout, effectTimeout, timers, checks>>
  /\ UNCHANGED <<currentView, authLoading, username, availabilityCalls, authCall,
                 statusFor, formErrors>>
  /\ UNCHANGED authOthers

\* onClose() of the parent and the effect on [isOpen]: resetModal()
OnClose ==
  /\ isOpen' = FALSE
  /\ IF isOpen
     THEN /\ currentView' = "auth"
          /\ username' = ""
          /\ formErrors' = FALSE
          /\ IF username # ""
             THEN UsernameEffect("", mode)
             ELSE /\ usernameStatus' = "idle"
                  /\ UNCHANGED <<checkTimeout, effectTimeout, timers, checks>>
     ELSE UNCHANGED <<currentView, username, formErrors, usernameStatus, checkTimeout,
                      effectTimeout, timers, checks>>

\* the user dismisses the dialog: onOpenChange={onClose}
CloseModal ==
  /\ isOpen
  /\ OnClose
  /\ UNCHANGED <<mode, authLoading, availabilityCalls, authCall, statusFor>>
  /\ UNCHANGED authOthers

\* "Forgot password?" of the login form and "Back" of the reset form
SetCurrentView(v) ==
  /\ isOpen /\ v # currentView
  /\ v = "reset" => mode = "login"
  /\ currentView' = v
  /\ UNCHANGED <<isOpen, mode, authLoading, usernameStatus, username, checkTimeout,
                 effectTimeout, timers, availabilityCalls, authCall, checks, statusFor,
                 formErrors>>
  /\ UNCHANGED authOthers

\* the callback of setTimeout runs: checkUsernameAvailability(username) with
\* the username of the render that set the timer
TimerFires(t) ==
  /\ t \in timers
  /\ timers' = timers \ {t}
  /\ availabilityCalls' = availabilityCalls \cup {t}
  /\ UNCHANGED <<isOpen, mode, currentView, authLoading, usernameStatus, username,
                 checkTimeout, effectTimeout, authCall, checks, statusFor, formErrors>>
  /\ UNCHANGED authOthers

\* await checkUsernameAvailability(username) settles
AvailabilityResolves(call, answer) ==
  /\ call \in availabilityCalls
  /\ availabilityCalls' = availabilityCalls \ {call}
  /\ usernameStatus' = IF answer = "rejected" THEN "idle" ELSE answer
  /\ statusFor' = call.username
  /\ UNCHANGED <<isOpen, mode, currentView, authLoading, username, checkTimeout,
                 effectTimeout, timers, authCall, checks, formErrors>>
  /\ UNCHANGED authOthers

\* a call of the auth context starts: setLoading(true)
StartAuthCall(kind, u, valid) ==
  /\ authLoading' = TRUE
  /\ authCall' = [kind |-> kind, username |-> u, valid |-> valid, state |-> "pending"]
  /\ formErrors' = FALSE

\* registerForm.handleSubmit(onRegisterSubmit); the button is disabled while
\* loading || usernameStatus !== 'available'
RegisterSubmit(form) ==
  /\ isOpen /\ currentView = "auth" /\ mode = "register"
  /\ ~(authLoading \/ usernameStatus # "available")
  /\ IF RegisterValid(username, form)
     THEN IF usernameStatus # "available"
          THEN UNCHANGED <<authLoading, authCall, formErrors>>
          ELSE StartAuthCall("signUp", username, RegisterValid(username, form))
     ELSE /\ formErrors' = TRUE
          /\ UNCHANGED <<authLoading, authCall>>
  /\ UNCHANGED <<isOpen, mode, currentView, usernameStatus, username, checkTimeout,
                 effectTimeout, timers, availabilityCalls, checks, statusFor>>
  /\ UNCHANGED authOthers

\* loginForm.handleSubmit(onLoginSubmit)
LoginSubmit(valid) ==
  /\ isOpen /\ currentView = "auth" /\ mode = "login"
  /\ ~authLoading
  /\ IF valid
     THEN StartAuthCall("signIn", "", valid)
     ELSE /\ formErrors' = TRUE
          /\ UNCHANGED <<authLoading, authCall>>
  /\ UNCHANGED <<isOpen, mode, currentView, usernameStatus, username, checkTimeout,
                 effectTimeout, timers, availabilityCalls, checks, statusFor>>
  /\ UNCHANGED authOthers

\* resetForm.handleSubmit(onResetSubmit)
ResetSubmit(valid) ==
  /\ isOpen /\ currentView = "reset"
  /\ ~authLoading
  /\ IF valid
     THEN StartAuthCall("resetPassword", "", valid)
     ELSE /\ formErrors' = TRUE
          /\ UNCHANGED <<authLoading, authCall>>
  /\ UNCHANGED <<isOpen, mode, currentView, usernameStatus, username, checkTimeout,
                 effectTimeout, timers, availabilityCalls, checks, statusFor>>
  /\ UNCHANGED authOthers

\* the statements after the await run only when the call did not throw
RunsAlways(rejected) == TRUE
RunsAfterAwait(rejected) == ~rejected

\* the awaited call settles: onClose() or setCurrentView('auth') in the try
\* block, nothing in the catch block, setLoading(false) in the finally block
AuthCallSettles(rejected) ==
  /\ authCall.state = "pending"
  /\ authCall' = [authCall EXCEPT !.state = IF rejected THEN "rejected" ELSE "resolved"]
  /\ authLoading' = FALSE
  /\ IF RunsAfterAwait(rejected)
     THEN IF authCall.kind = "resetPassword"
          THEN /\ currentView' = "auth"
               /\ UNCHANGED <<isOpen, username, formErrors, usernameStatus, checkTimeout,
                              effectTimeout, timers, checks>>
          ELSE OnClose
     ELSE UNCHANGED <<isOpen, currentView, username, formErrors, usernameStatus,
                      checkTimeout, effectTimeout, timers, checks>>
  /\ UNCHANGED <<mode, availabilityCalls, statusFor>>
  /\ UNCHANGED authOthers

NextAuth ==
  \/ \E u \in Usernames : SetUsername(u)
  \/ ToggleMode
  \/ \E m \in Modes : OpenModal(m)
  \/ CloseModal
  \/ \E v \in Views : SetCurrentView(v)
  \/ \E t \in TimerSet : TimerFires(t)
  \/ \E call \in TimerSet, answer \in Answers : AvailabilityResolves(call, answer)
  \/ \E form \in RegisterForms : RegisterSubmit(form)
  \/ \E valid \in BOOLEAN : LoginSubmit(valid)
  \/ \E valid \in BOOLEAN : ResetSubmit(valid)
  \/ \E rejected \in BOOLEAN : AuthCallSettles(rejected)

----------------------------------------------------------------------------
(* Properties.                                                             *)

\* C1: the notification list holds at most 10 entries, and they are exactly the
\* most recently received events, newest first (ids are arrival numbers, so the
\* entry at position i is the event that arrived i - 1 events before the last).
C1_Retention ==
  /\ Len(notifications) = Min(delivered, 10)
  /\ \A i \in 1..Len(notifications) : notifications[i].id = delivered - i + 1

\* C1 witness: 12 events were handled and the list holds events 12 down to 3.
C1_Witness ==
  /\ delivered = 12
  /\ Len(notifications) = 10
  /\ notifications[1].id = 12
  /\ notifications[10].id = 3

\* C2: a feedback notification is 'high' iff the row's average_rating is non-null
\* and below 3, 'medium' otherwise; an issue notification is always 'high'.
C2_PriorityClaim ==
  Len(notifications) > 0 =>
    LET n == notifications[1]
        rating == lastPayload.average_rating
    IN /\ n.type = "feedback" =>
            /\ n.priority \in {"high", "medium"}
            /\ n.priority = "high" <=> (rating.kind = "num" /\ rating.tenths < 30)
       /\ n.type = "issue" => n.priority = "high"

\* C3: every step that changes the search text, the rating filter or the date
\* filter leaves currentPage at 1.
C3_FilterChangeResetsPage ==
  [][(searchTerm' # searchTerm \/ ratingFilter' # ratingFilter \/ dateFilter' # dateFilter)
       => currentPage' = 1]_vars

\* C4: whenever a fetch result with totalPages >= 1 is displayed,
\* 1 <= currentPage <= totalPages.
C4_PageWithinRange ==
  (feedbackData.status = "success" /\ totalPages >= 1) =>
    (1 <= currentPage /\ currentPage <= totalPages)

\* C5: when a burst of updateFilter calls (consecutive calls less than 300 ms
\* apart) is over, exactly one query was issued for it, built from the filters of
\* the last call of the burst.
C5_BurstIssuesOnce ==
  (~timerPending /\ burstCalls > 0) => (burstIssued = 1 /\ lastIssued = debouncedArgs)

\* C6: whenever every filter field is at its default, no active filter is
\* reported, the query is not enabled and no fetch for it is in flight.
C6_IdleWhenDefault ==
  filters = DefaultFilters =>
    (activeFiltersCount = 0 /\ ~enabled /\ DefaultFilters \notin searchInflight)

\* the rating intervals of the selector, lower bound inclusive, upper exclusive
InBand(sel, r) ==
  /\ r.kind = "num"
  /\ CASE sel = "5" -> r.tenths >= 45
       [] sel = "4" -> 35 <= r.tenths /\ r.tenths < 45
       [] sel = "3" -> 25 <= r.tenths /\ r.tenths < 35
       [] sel = "2" -> 15 <= r.tenths /\ r.tenths < 25
       [] sel = "1" -> r.tenths < 15
       [] OTHER -> FALSE

OnlyRatingFilter == filters.query = "" /\ filters.sender = "" /\ filters.dateRange = "all"

\* C7: with rating selector s, every row returned has its rating in the interval
\* of s, and when no other filter is set every row of the table whose rating is
\* in the interval is returned.
C7_RatingBands ==
  (searchResults.status = "success" /\ filters.rating # "all") =>
    /\ \A row \in searchResults.rows : InBand(filters.rating, row.average_rating)
    /\ OnlyRatingFilter =>
         \A row \in SearchTable :
           InBand(filters.rating, row.average_rating) => row \in searchResults.rows

\* C7 witness: band '3' alone returned, of the ratings 2.4, 2.5, 3.4, 3.5,
\* exactly 2.5 and 3.4.
C7_Witness ==
  /\ searchResults.status = "success"
  /\ filters.rating = "3"
  /\ OnlyRatingFilter
  /\ {row.average_rating : row \in searchResults.rows} \cap {Num(24), Num(25), Num(34), Num(35)}
       = {Num(25), Num(34)}

IsRated(f) == f.average_rating.kind = "num"

\* C8: positive + neutral + negative equals the number of rows whose
\* average_rating is non-null.
C8_SentimentSum ==
  dashFeedbacks.status = "success" =>
    sentimentData.positive + sentimentData.neutral + sentimentData.negative
      = Cardinality({i \in 1..Len(feedbacks) : IsRated(feedbacks[i])})

\* C9: the displayed average (one decimal) is 0 for the empty list, and otherwise
\* the mean of average_rating over the rows where it is present.
C9_AverageOfPresent ==
  dashFeedbacks.status = "success" =>
    LET rated == SelectSeq(feedbacks, IsRated)
    IN /\ Len(feedbacks) = 0 => averageRating = 0
       /\ Len(rated) > 0 =>
            averageRating
              = RoundDiv(SumSeq([i \in 1..Len(rated) |-> rated[i].average_rating.tenths]),
                         Len(rated))

\* the ranking as claimed: one entry per title in order of first arrival, ordered
\* by count descending with ties kept in that order, cut to the first n
ClaimedRanking(rows, n) ==
  LET arrivals == FirstArrivals(rows)
      entries == [i \in 1..Len(arrivals) |->
                    [title |-> arrivals[i], count |-> Occurrences(rows, arrivals[i])]]
  IN Slice0(SortByCountDesc(entries), n)

\* C10: the top issues are the titles counted by exact title, ordered by count
\* descending with ties in order of first arrival, cut to the first N, for any
\* title string.
C10_TopIssuesRanking ==
  stats.present => stats.topIssues = ClaimedRanking(issueRows, TopN)

C15_TotalPagesIsCeiling ==
  feedbackData.status = "success" =>
    /\ ITEMS_PER_PAGE * feedbackData.totalPages >= feedbackData.totalCount
    /\ ITEMS_PER_PAGE * (feedbackData.totalPages - 1) < feedbackData.totalCount
    /\ feedbackData.totalPages >= 0
    /\ lastCount.null => (feedbackData.totalCount = 0 /\ feedbackData.totalPages = 0)
    /\ ~lastCount.null => feedbackData.totalCount = lastCount.n

\* the example of the claim: 23 rows make 3 pages
C15_Witness ==
  /\ feedbackData.status = "success"
  /\ lastCount = Count(23)
  /\ feedbackData.totalPages = 3

\* C16: in every state in which the pager is shown, Next cannot be clicked
\* exactly when currentPage = totalPages, and Previous cannot be clicked
\* exactly when currentPage = 1.
C16_PagerDisabled ==
  PagerShown =>
    /\ (~ENABLED NextPage) <=> (currentPage = totalPages)
    /\ (~ENABLED PreviousPage) <=> (currentPage = 1)

\* the pager on its last page, which is not the first
C16_Witness ==
  /\ PagerShown
  /\ currentPage = totalPages
  /\ currentPage > 1
  /\ ~ENABLED NextPage
  /\ ENABLED PreviousPage

\* C17: every page navigation (Previous or Next) lands on a page within
\* [1, totalPages], totalPages being that of the result the pager is shown
\* for.
C17_NavigationClamped ==
  [][(PreviousPage \/ NextPage) =>
       (1 <= currentPage' /\ currentPage' <= totalPages)]_vars

IssueMutationRejected ==
  \/ \E call \in CreateCallSet : CreateResolve(call, TRUE)
  \/ \E call \in DeleteCallSet : DeleteResolve(call, TRUE)

MarkRejected == \E call \in MarkCallSet : MarkUpdateResolve(call, TRUE)

MutationRejected == IssueMutationRejected \/ MarkRejected

C11_SameInputsSameValues ==
  [][(analyticsFeedbacks' = analyticsFeedbacks /\ analyticsIssues' = analyticsIssues) =>
       (analyticsStats' = analyticsStats /\ chartData' = chartData)]_vars

\* rows of a list on a given day, at a given hour
CountOnDay(rows, day) == Cardinality({i \in DOMAIN rows : rows[i].day = day})
CountAtHour(rows, hour) == Cardinality({i \in DOMAIN rows : rows[i].hour = hour})

\* C18: for a non-empty feedback list the weekly series has exactly 7
\* buckets, one per day of the last 7 days, the hourly series exactly 24,
\* one per hour, and the daily series one bucket per day from the day of
\* the oldest row to the day of the newest; each bucket holds the number of
\* rows that fall in it (0 when none does), and every row is counted in
\* exactly one hourly bucket.
C18_ZeroFilledBuckets ==
  chartData.present =>
    LET rows == analyticsFeedbacks.data
        weekly == chartData.weeklyData
        hourly == chartData.hourlyData
        daily == chartData.timeSeriesData
        newest == rows[Len(rows)].day
        oldest == rows[1].day
    IN /\ Len(weekly) = WeekDays
       /\ \A day \in 0..(WeekDays - 1) :
            /\ Cardinality({k \in DOMAIN weekly : weekly[k].date = day}) = 1
            /\ \A k \in DOMAIN weekly :
                 weekly[k].date = day => weekly[k].feedback = CountOnDay(rows, day)
       /\ Len(hourly) = HoursPerDay
       /\ \A hour \in 0..(HoursPerDay - 1) :
            /\ Cardinality({k \in DOMAIN hourly : hourly[k].hour = hour}) = 1
            /\ \A k \in DOMAIN hourly :
                 hourly[k].hour = hour => hourly[k].count = CountAtHour(rows, hour)
       /\ \A i \in DOMAIN rows :
            Cardinality({k \in DOMAIN hourly : hourly[k].hour = rows[i].hour}) = 1
       /\ \A day \in newest..oldest :
            /\ Cardinality({k \in DOMAIN daily : daily[k].date = day}) = 1
            /\ \A k \in DOMAIN daily :
                 daily[k].date = day => daily[k].count = CountOnDay(rows, day)

\* a run of the queryFn completes
EnhancedCompletes ==
  /\ \E t \in EnhancedTables : enhancedReads[t].state = "pending"
  /\ \A t \in EnhancedTables : enhancedReads'[t].state = "idle"

\* C19: when a read against the backend has failed, the view shows an error
\* notification and the rows loaded before stay in place: the run of the
\* fetch that had the failed read leaves the displayed lists as they were.
C19_ReadFailureKeepsData ==
  [][(EnhancedCompletes /\ enhancedFailed') =>
       /\ enhancedErrorShown'
       /\ dashboardData'.feedbacks = dashboardData.feedbacks
       /\ dashboardData'.issues = dashboardData.issues
       /\ dashboardData'.users = dashboardData.users]_vars

\* an availability request is sent in this step
RequestIssued == availabilityCalls' \ availabilityCalls # {}

\* the check started by the last edit has not been answered yet
LatestCheckPending ==
  \E t \in timers \cup availabilityCalls : t.id = checkTimeout /\ t.username = username

\* C21: the availability check is debounced: while the field holds a
\* username of at least 3 characters, a request is sent only by the single
\* pending timer and for the username in the field, and the status is
\* 'checking' from the edit until the answer to that check arrives; the
\* answer to the latest check sets 'available' or 'taken' accordingly.
C21_DebouncedAvailabilityCheck ==
  /\ [][(RequestIssued /\ StartsCheck(username, mode)) =>
          /\ Cardinality(timers) = 1
          /\ \A t \in timers : t.username = username /\ t.id = checkTimeout]_vars
  /\ [](StartsCheck(username, mode) /\ LatestCheckPending => usernameStatus = "checking")
  /\ [][\A call \in availabilityCalls \ availabilityCalls' :
          call.id = checkTimeout /\ usernameStatus' \in {"available", "taken"} =>
            statusFor' = call.username]_vars

\* signUp is invoked in this step
SignUpInvoked ==
  /\ authCall.state # "pending"
  /\ authCall'.state = "pending" /\ authCall'.kind = "signUp"

\* C22: signUp is invoked only with a form that passes registerSchema and
\* with usernameStatus 'available', and that status is the answer for the
\* submitted username: no check of it is still pending and it was not
\* reported taken.
C22_SignUpOnlyWhenValidAndAvailable ==
  [][SignUpInvoked =>
       /\ authCall'.valid
       /\ Len(authCall'.username) >= 3 /\ Len(authCall'.username) <= 20
       /\ usernameStatus = "available"
       /\ statusFor = authCall'.username
       /\ ~\E t \in timers \cup availabilityCalls : t.username = authCall'.username]_vars

\* C23: whenever usernameStatus is 'available' or 'taken', the answer was
\* produced by the availability check of the username now in the field.
C23_StatusIsForCurrentUsername ==
  usernameStatus \in {"available", "taken"} => statusFor = username

\* the awaited signIn, signUp or resetPassword call settles in this step
AuthSettled == authCall.state = "pending" /\ authCall'.state # "pending"

\* C28: when the awaited sign-in, sign-up or password-reset call rejects,
\* the modal stays as it is (not closed, same view) and loading returns to
\* false; when it resolves, the modal is closed (sign-in, sign-up) or shows
\* the auth view again (reset), and loading returns to false; loading is
\* true for as long as the call is pending.
C28_RejectionKeepsModal ==
  /\ [](authCall.state = "pending" => authLoading)
  /\ [][AuthSettled =>
          /\ ~authLoading'
          /\ authCall'.state = "rejected" =>
               /\ isOpen' = isOpen
               /\ currentView' = currentView
          /\ authCall'.state = "resolved" =>
               IF authCall.kind = "resetPassword"
               THEN currentView' = "auth" /\ isOpen' = isOpen
               ELSE ~isOpen']_vars

\* a sign-up was rejected and the register form is still open
C28_Witness ==
  /\ authCall.kind = "signUp" /\ authCall.state = "rejected"
  /\ isOpen /\ currentView = "auth" /\ mode = "register"
  /\ ~authLoading

C25_JoinedBeforeRendering ==
  AnalyticsContentShown =>
    analyticsFeedbacks.status = "success" /\ analyticsIssues.status = "success"

\* the rating of a row as the claim reads it: null counts as 0
RatingOrZero(f) == IF f.average_rating.kind = "num" THEN f.average_rating.tenths ELSE 0

C27_LoadingEventuallyFalse == <>(~loading)

\* a handler of a channel ran in this step
HandlerRan == delivered' = delivered + 1

UpdatesIssued == {call \in markCalls' \ markCalls : call.stage = "update"}

\* C30: a feedback row is marked at most once: no update is issued for an
\* id that an update was issued for before, and a processed_at that has
\* been written keeps its value.
C30_MarkedAtMostOnce ==
  /\ [][\A call \in UpdatesIssued : call.id \notin marked]_vars
  /\ [][\A id \in FeedbackIds :
          processedAt[id] # 0 => processedAt'[id] = processedAt[id]]_vars

----------------------------------------------------------------------------
(* Specifications, one per component.                                      *)

Init ==
  /\ InitNotif /\ InitFM /\ InitSearch /\ InitDash /\ InitLoad /\ InitMark /\ InitIssues
  /\ InitAnalytics /\ InitEnhanced /\ InitAuth /\ InitChannel

SpecNotif == Init /\ [][NextNotif]_vars
SpecNotifRead == Init /\ [][NextNotifRead]_vars
SpecFM == Init /\ [][NextFM]_vars
SpecSearch == Init /\ [][NextSearch]_vars
SpecDash == Init /\ [][NextDash]_vars
SpecLoad == Init /\ [][NextLoad]_vars
\* the effect runs after the render and every awaited backend call settles;
\* nothing makes a visitor sign in
SpecLoadFair == SpecLoad /\ WF_vars(LoadStart) /\ WF_vars(LoadSettles)
SpecWrites == Init /\ [][NextWrites]_vars
SpecAnalytics == Init /\ [][NextAnalytics]_vars
SpecEnhanced == Init /\ [][NextEnhanced]_vars
SpecAuth == Init /\ [][NextAuth]_vars
SpecChannel == Init /\ [][NextChannel]_vars

====
